---- MODULE Spec2Model ----
(***************************************************************************)
(* Model of gpflow/mean_functions.py: the mean-function classes (Linear,   *)
(* Identity, Constant, Zero, SwitchedMeanFunction, Additive, Product),     *)
(* their construction (including the + and * operators) and evaluation.    *)
(*                                                                         *)
(* Objects live in `heap` (a node's identity is its index).  `last` is the *)
(* record of the most recent statement executed by the client program:     *)
(* what was called, with which arguments, what it returned or raised, and  *)
(* the sequence of __call__ invocations it caused.                         *)
(*                                                                         *)
(* Tensors: a rank-2 tensor is [n, w, d] (n rows of width w, d the rows),  *)
(* a rank-1 tensor is a sequence.  Entries are integers.                   *)
(***************************************************************************)
EXTENDS Integers, Sequences, FiniteSets, TLC

VARIABLES heap, last

vars == <<heap, last>>

(* ------------------------------ bounds ------------------------------- *)

\* most objects the client program constructs
MaxNodes == 3
\* most rows of an input batch X
MaxRows == 2

(* ------------------------------ tensors ------------------------------ *)

Mat(n, w, rows) == [n |-> n, w |-> w, d |-> rows]

NoMat == Mat(0, 0, <<>>)

Min2(a, b) == IF a <= b THEN a ELSE b

\* results of a statement: a value, or the exception it raised
Ok(m) == [ok |-> TRUE, val |-> m, vec |-> <<>>, ref |-> 0, err |-> ""]

OkVec(v) == [ok |-> TRUE, val |-> NoMat, vec |-> v, ref |-> 0, err |-> ""]

OkRef(i) == [ok |-> TRUE, val |-> NoMat, vec |-> <<>>, ref |-> i, err |-> ""]

OkNone == [ok |-> TRUE, val |-> NoMat, vec |-> <<>>, ref |-> 0, err |-> ""]

Raise(e) == [ok |-> FALSE, val |-> NoMat, vec |-> <<>>, ref |-> 0, err |-> e]

\* variant: no broadcasting, the two sizes must be equal
BroadcastOk_mutant(a, b) == a = b

\* numpy / tensorflow broadcasting of one dimension
BroadcastOk(a, b) == a = b \/ a = 1 \/ b = 1

BroadcastDim(a, b) == IF a = 1 THEN b ELSE a

\* element (i, j) of m seen through broadcasting to a larger shape
BAt(m, i, j) == m.d[IF m.n = 1 THEN 1 ELSE i][IF m.w = 1 THEN 1 ELSE j]

\* the scalar operation of an elementwise kernel
Scalar(op, a, b) ==
    CASE op = "add" -> a + b
      [] op = "multiply" -> a * b
      [] op = "subtract" -> a - b

Elementwise(op, x, y) ==
    IF BroadcastOk(x.n, y.n) /\ BroadcastOk(x.w, y.w)
    THEN LET n == BroadcastDim(x.n, y.n)
             w == BroadcastDim(x.w, y.w)
         IN Ok(Mat(n, w, [i \in 1..n |->
                            [j \in 1..w |-> Scalar(op, BAt(x, i, j), BAt(y, i, j))]]))
    ELSE Raise("InvalidArgument")

\* variant: the wrong elementwise kernel
tf_add_mutant(x, y) == Elementwise("subtract", x, y)

tf_add(x, y) == Elementwise("add", x, y)

tf_multiply(x, y) == Elementwise("multiply", x, y)

RECURSIVE Dot(_, _, _, _)
Dot(row, A, j, k) == IF k = 0 THEN 0 ELSE Dot(row, A, j, k - 1) + row[k] * A.d[k][j]

tf_matmul(X, A) ==
    IF X.w = A.n
    THEN Ok(Mat(X.n, A.w, [i \in 1..X.n |-> [j \in 1..A.w |-> Dot(X.d[i], A, j, X.w)]]))
    ELSE Raise("InvalidArgument")

\* a rank-1 tensor seen as one row, as broadcasting against a matrix sees it
AsRow(v) == Mat(1, Len(v), <<v>>)

\* tf.tile(c, [n, 1]) of a matrix c
tf_tile(c, n) == Mat(c.n * n, c.w, [i \in 1..(c.n * n) |-> c.d[((i - 1) % c.n) + 1]])

tf_zeros(n, w) == Mat(n, w, [i \in 1..n |-> [j \in 1..w |-> 0]])

tf_eye(k) == Mat(k, k, [i \in 1..k |-> [j \in 1..k |-> IF i = j THEN 1 ELSE 0]])

tf_zeros_vec(k) == [j \in 1..k |-> 0]

\* tf.cast(., tf.int32) truncates toward zero; the entries of the model's tensors are
\* integral and far inside the int32 range, where truncation keeps the value
tf_cast_int32(v) == v

\* X[:, -1]
LastColumn(X) == [i \in 1..X.n |-> tf_cast_int32(X.d[i][X.w])]

\* X[:, :-1]
FeatureColumns(X) == Mat(X.n, X.w - 1, [i \in 1..X.n |-> SubSeq(X.d[i], 1, X.w - 1)])

\* the positions 1..n of ind, in increasing order, whose label is g
RECURSIVE PositionsOf(_, _, _)
PositionsOf(ind, g, n) ==
    IF n = 0 THEN <<>>
    ELSE IF ind[n] = g THEN Append(PositionsOf(ind, g, n - 1), n)
         ELSE PositionsOf(ind, g, n - 1)

PartitionValid(ind, K) == K >= 1 /\ \A i \in 1..Len(ind) : ind[i] \in 0..(K - 1)

\* variant: the groups in reverse label order
dynamic_partition_mutant(X, ind, K) ==
    [g \in 1..K |->
        LET pos == PositionsOf(ind, K - g, Len(ind))
        IN Mat(Len(pos), X.w, [p \in 1..Len(pos) |-> X.d[pos[p]]])]

\* tf.dynamic_partition(X, ind, K): group g (1-based here) holds the rows labelled g-1,
\* in the order they have in X
dynamic_partition(X, ind, K) ==
    [g \in 1..K |->
        LET pos == PositionsOf(ind, g - 1, Len(ind))
        IN Mat(Len(pos), X.w, [p \in 1..Len(pos) |-> X.d[pos[p]]])]

\* tf.dynamic_partition(tf.range(0, size), ind, K), as 1-based row numbers
dynamic_partition_range(ind, K) == [g \in 1..K |-> PositionsOf(ind, g - 1, Len(ind))]

StitchShapesOk(partitions, results) ==
    /\ Len(partitions) >= 1
    /\ Len(partitions) = Len(results)
    /\ \A g \in 1..Len(results) : results[g].n = Len(partitions[g])
    /\ \A g \in 1..Len(results) : results[g].w = results[1].w

StitchSlots(partitions) ==
    UNION {{<<g, p>> : p \in 1..Len(partitions[g])} : g \in 1..Len(partitions)}

\* rows of the merged tensor: the largest index stitched, plus one (0-based)
StitchRows(partitions) ==
    LET S == StitchSlots(partitions)
    IN IF S = {} THEN 0
       ELSE CHOOSE m \in {partitions[gp[1]][gp[2]] : gp \in S} :
                \A gp \in S : partitions[gp[1]][gp[2]] <= m

\* variant: the results concatenated group after group
dynamic_stitch_mutant(partitions, results) ==
    IF StitchShapesOk(partitions, results)
    THEN LET S == StitchSlots(partitions)
             n == StitchRows(partitions)
             before(gp) == {hq \in S : hq[1] < gp[1] \/ (hq[1] = gp[1] /\ hq[2] < gp[2])}
             src(i) == CHOOSE gp \in S : Cardinality(before(gp)) = i - 1
         IN Ok(Mat(n, results[1].w, [i \in 1..n |-> results[src(i)[1]].d[src(i)[2]]]))
    ELSE Raise("InvalidArgument")

\* tf.dynamic_stitch: merged[partitions[g][p]] = results[g][p]
dynamic_stitch(partitions, results) ==
    IF StitchShapesOk(partitions, results)
    THEN LET S == StitchSlots(partitions)
             n == StitchRows(partitions)
             src(i) == CHOOSE gp \in S : partitions[gp[1]][gp[2]] = i
         IN Ok(Mat(n, results[1].w, [i \in 1..n |-> results[src(i)[1]].d[src(i)[2]]]))
    ELSE Raise("InvalidArgument")

(* ------------------------------ objects ------------------------------ *)

\* Optional values: <<>> is None (or an absent attribute), <<v>> is v.
None == <<>>

Some(v) == <<v>>

\* A value handed to a constructor: a mean function on the heap, or anything else
MF(i) == [isMF |-> TRUE, ref |-> i]

NotMF == [isMF |-> FALSE, ref |-> 0]

isinstance_MeanFunction(m) == m.isMF

\* kids: add_1, add_2 / prod_1, prod_2 / meanfunction_list
MeanFunction_init(kind) ==
    [kind |-> kind, A |-> None, b |-> None, c |-> None,
     input_dim |-> None, output_dim |-> None, kids |-> <<>>]

\* variant: the setter stores the value, as Linear does
Identity_A_setter_mutant(self, A) == [self EXCEPT !.A = Some(A)]

\* the A and b setters of Identity: `pass`
Identity_A_setter(self, A) == self

Identity_b_setter(self, b) == self

\* self.A = value, self.b = value: through the property setter where the class has one
SetAttrA(self, A) ==
    IF self.kind = "Identity" THEN Identity_A_setter(self, A) ELSE [self EXCEPT !.A = Some(A)]

SetAttrB(self, b) ==
    IF self.kind = "Identity" THEN Identity_b_setter(self, b) ELSE [self EXCEPT !.b = Some(b)]

\* an argument A of Linear: None, a rank-1 array or a rank-2 array
ArgNone == [rank |-> 0, vec |-> <<>>, mat |-> NoMat]

ArgVec(v) == [rank |-> 1, vec |-> v, mat |-> NoMat]

ArgMat(m) == [rank |-> 2, vec |-> <<>>, mat |-> m]

np_atleast_2d(a) == IF a.rank = 1 THEN AsRow(a.vec) ELSE a.mat

Linear_init(self, A, b) ==
    LET A1 == IF A.rank = 0 THEN ArgMat(Mat(1, 1, <<<<1>>>>)) ELSE A
        b1 == IF b = None THEN <<0>> ELSE b[1]
    IN SetAttrB(SetAttrA(self, np_atleast_2d(A1)), b1)

Linear_call(self, X) ==
    IF self.A = None \/ self.b = None THEN Raise("AttributeError")
    ELSE LET XA == tf_matmul(X, self.A[1])
         IN IF XA.ok THEN tf_add(XA.val, AsRow(self.b[1])) ELSE XA

Identity_init(self, input_dim) ==
    [Linear_init(self, ArgNone, None) EXCEPT !.input_dim = input_dim]

Identity_call(self, X) == Ok(X)

\* variant: a default dimension instead of the error
Identity_A_mutant(self) ==
    IF self.input_dim = None THEN Ok(tf_eye(1)) ELSE Ok(tf_eye(self.input_dim[1]))

Identity_A(self) ==
    IF self.input_dim = None THEN Raise("ValueError") ELSE Ok(tf_eye(self.input_dim[1]))

Identity_b(self) ==
    IF self.input_dim = None THEN Raise("ValueError")
    ELSE OkVec(tf_zeros_vec(self.input_dim[1]))

\* np.reshape(c, (1, -1)) of a rank-1 array
np_reshape_row(c) == Mat(1, Len(c), <<c>>)

Constant_init(self, c) ==
    LET c1 == IF c = None THEN <<0>> ELSE c[1]
    IN [self EXCEPT !.c = Some(np_reshape_row(c1))]

\* variant: tiled by the column count of X
Constant_call_mutant(self, X) ==
    IF self.c = None THEN Raise("AttributeError") ELSE Ok(tf_tile(self.c[1], X.w))

Constant_call(self, X) ==
    IF self.c = None THEN Raise("AttributeError") ELSE Ok(tf_tile(self.c[1], X.n))

Zero_init(self, output_dim) ==
    [Constant_init(self, None) EXCEPT !.output_dim = Some(output_dim), !.c = None]

Zero_call(self, X) == Ok(tf_zeros(X.n, self.output_dim[1]))

(* ----------------------------- evaluation ----------------------------- *)

\* one __call__ invocation: the object called, its argument and the caller
\* (0: the client program)
Entry(id, X, by) == [id |-> id, x |-> X, by |-> by]

Outcome(res, log) == [res |-> res, log |-> log]

RECURSIVE Call(_, _, _, _)
RECURSIVE Additive_call(_, _, _, _)
RECURSIVE Product_call(_, _, _, _)
RECURSIVE SwitchedMeanFunction_call(_, _, _, _)
RECURSIVE CallEach(_, _, _, _, _)

\* results = [m(x) for x, m in zip(x_list, meanfunction_list)], the first k of them:
\* the children are called in list order and the first exception ends the loop
CallEach(h, id, kids, x_list, k) ==
    IF k = 0 THEN [ok |-> TRUE, results |-> <<>>, log |-> <<>>, res |-> OkNone]
    ELSE LET prev == CallEach(h, id, kids, x_list, k - 1)
         IN IF ~prev.ok THEN prev
            ELSE LET r == Call(h, kids[k], x_list[k], id)
                 IN [ok |-> r.res.ok,
                     results |-> IF r.res.ok THEN Append(prev.results, r.res.val)
                                 ELSE prev.results,
                     log |-> prev.log \o r.log,
                     res |-> r.res]

SwitchedMeanFunction_call(h, id, X, by) ==
    LET self == h[id]
        K == Len(self.kids)
        me == <<Entry(id, X, by)>>
    IN IF X.w = 0 THEN Outcome(Raise("InvalidArgument"), me)
       ELSE LET ind == LastColumn(X)
                X1 == FeatureColumns(X)
            IN IF ~PartitionValid(ind, K) THEN Outcome(Raise("InvalidArgument"), me)
               ELSE LET x_list == dynamic_partition(X1, ind, K)
                        each == CallEach(h, id, self.kids, x_list, Min2(Len(x_list), K))
                    IN IF ~each.ok THEN Outcome(each.res, me \o each.log)
                       ELSE LET partitions == dynamic_partition_range(ind, K)
                            IN Outcome(dynamic_stitch(partitions, each.results),
                                       me \o each.log)

Additive_call(h, id, X, by) ==
    LET self == h[id]
        me == <<Entry(id, X, by)>>
        r1 == Call(h, self.kids[1], X, id)
    IN IF ~r1.res.ok THEN Outcome(r1.res, me \o r1.log)
       ELSE LET r2 == Call(h, self.kids[2], X, id)
            IN IF ~r2.res.ok THEN Outcome(r2.res, me \o r1.log \o r2.log)
               ELSE Outcome(tf_add(r1.res.val, r2.res.val), me \o r1.log \o r2.log)

Product_call(h, id, X, by) ==
    LET self == h[id]
        me == <<Entry(id, X, by)>>
        r1 == Call(h, self.kids[1], X, id)
    IN IF ~r1.res.ok THEN Outcome(r1.res, me \o r1.log)
       ELSE LET r2 == Call(h, self.kids[2], X, id)
            IN IF ~r2.res.ok THEN Outcome(r2.res, me \o r1.log \o r2.log)
               ELSE Outcome(tf_multiply(r1.res.val, r2.res.val), me \o r1.log \o r2.log)

\* h[id](X): dispatch on the class of the object
Call(h, id, X, by) ==
    LET self == h[id]
        me == <<Entry(id, X, by)>>
    IN CASE self.kind = "Linear" -> Outcome(Linear_call(self, X), me)
         [] self.kind = "Identity" -> Outcome(Identity_call(self, X), me)
         [] self.kind = "Constant" -> Outcome(Constant_call(self, X), me)
         [] self.kind = "Zero" -> Outcome(Zero_call(self, X), me)
         [] self.kind = "SwitchedMeanFunction" -> SwitchedMeanFunction_call(h, id, X, by)
         [] self.kind = "Additive" -> Additive_call(h, id, X, by)
         [] self.kind = "Product" -> Product_call(h, id, X, by)

(* ---------------------------- construction --------------------------- *)

\* what a constructor leaves behind: the object, or the exception it raised
Built(node) == [ok |-> TRUE, node |-> node, err |-> ""]

Failed(self, e) == [ok |-> FALSE, node |-> self, err |-> e]

\* variant: self.add_2 = self
Additive_init_selfref(self, first_part, second_part) ==
    IF ~isinstance_MeanFunction(first_part) THEN Failed(self, "AssertionError")
    ELSE IF ~isinstance_MeanFunction(second_part) THEN Failed(self, "AssertionError")
    ELSE Built([self EXCEPT !.kids = <<first_part.ref, Len(heap) + 1>>])

\* variant: the children stored in the other order
Additive_init_mutant(self, first_part, second_part) ==
    IF ~isinstance_MeanFunction(first_part) THEN Failed(self, "AssertionError")
    ELSE IF ~isinstance_MeanFunction(second_part) THEN Failed(self, "AssertionError")
    ELSE Built([self EXCEPT !.kids = <<second_part.ref, first_part.ref>>])

Additive_init(self, first_part, second_part) ==
    IF ~isinstance_MeanFunction(first_part) THEN Failed(self, "AssertionError")
    ELSE IF ~isinstance_MeanFunction(second_part) THEN Failed(self, "AssertionError")
    ELSE Built([self EXCEPT !.kids = <<first_part.ref, second_part.ref>>])

\* variant: the second assertion missing
Product_init_mutant(self, first_part, second_part) ==
    IF ~isinstance_MeanFunction(first_part) THEN Failed(self, "AssertionError")
    ELSE Built([self EXCEPT !.kids = <<first_part.ref, second_part.ref>>])

Product_init(self, first_part, second_part) ==
    IF ~isinstance_MeanFunction(first_part) THEN Failed(self, "AssertionError")
    ELSE IF ~isinstance_MeanFunction(second_part) THEN Failed(self, "AssertionError")
    ELSE Built([self EXCEPT !.kids = <<first_part.ref, second_part.ref>>])

SwitchedMeanFunction_init(self, meanfunction_list) ==
    IF \E k \in 1..Len(meanfunction_list) : ~isinstance_MeanFunction(meanfunction_list[k])
    THEN Failed(self, "AssertionError")
    ELSE Built([self EXCEPT !.kids =
                    [k \in 1..Len(meanfunction_list) |-> meanfunction_list[k].ref]])

\* self + other, self * other
MeanFunction_add(self, other) ==
    Additive_init(MeanFunction_init("Additive"), MF(self), other)

MeanFunction_mul(self, other) ==
    Product_init(MeanFunction_init("Product"), MF(self), other)

(* ------------------------- the client program ------------------------ *)

\* longest list handed to SwitchedMeanFunction
MaxK == 2

\* labels a client writes in the last column
Labels == 0..(MaxK - 1)

\* a batch whose row i holds the feature i and the label l[i]
Labelled(l) == Mat(Len(l), 2, [i \in 1..Len(l) |-> <<i, l[i]>>])

\* a batch of one column whose row i holds i
Plain(n) == Mat(n, 1, [i \in 1..n |-> <<i>>])

Inputs ==
    {Labelled(l) : l \in UNION {[1..n -> Labels] : n \in 0..MaxRows}}
        \cup {Plain(n) : n \in 0..MaxRows}

\* arguments of the leaf constructors
LinearArgs == {<<ArgNone, Some(<<1>>)>>}

IdentityArgs == {None, Some(2)}

ConstantArgs == {Some(<<1, 3>>)}

ZeroArgs == {3}

\* values assigned to the attributes A and b
AssignedA == {Mat(1, 1, <<<<2>>>>)}

AssignedB == {<<1>>}

Values == {MF(i) : i \in 1..Len(heap)} \cup {NotMF}

Lists == UNION {[1..k -> Values] : k \in 0..MaxK}

Statement(op, id, x, args, res, log) ==
    [op |-> op, id |-> id, x |-> x, args |-> args, res |-> res, log |-> log]

Init ==
    /\ heap = <<>>
    /\ last = Statement("start", 0, NoMat, <<>>, OkNone, <<>>)

\* m = <class>(...): the new object is reachable only if the constructor returns
Construct(op, args, built) ==
    IF built.ok
    THEN /\ Len(heap) < MaxNodes
         /\ heap' = Append(heap, built.node)
         /\ last' = Statement(op, 0, NoMat, args, OkRef(Len(heap) + 1), <<>>)
    ELSE /\ heap' = heap
         /\ last' = Statement(op, 0, NoMat, args, Raise(built.err), <<>>)

NewLinear ==
    \E a \in LinearArgs :
        Construct("Linear", <<>>, Built(Linear_init(MeanFunction_init("Linear"), a[1], a[2])))

NewIdentity ==
    \E d \in IdentityArgs :
        Construct("Identity", <<>>, Built(Identity_init(MeanFunction_init("Identity"), d)))

NewConstant ==
    \E c \in ConstantArgs :
        Construct("Constant", <<>>, Built(Constant_init(MeanFunction_init("Constant"), c)))

NewZero ==
    \E q \in ZeroArgs :
        Construct("Zero", <<>>, Built(Zero_init(MeanFunction_init("Zero"), q)))

NewAdditive ==
    \E f \in Values, g \in Values :
        Construct("Additive", <<f, g>>, Additive_init(MeanFunction_init("Additive"), f, g))

NewProduct ==
    \E f \in Values, g \in Values :
        Construct("Product", <<f, g>>, Product_init(MeanFunction_init("Product"), f, g))

NewSwitched ==
    \E l \in Lists :
        Construct("SwitchedMeanFunction", l,
                  SwitchedMeanFunction_init(MeanFunction_init("SwitchedMeanFunction"), l))

\* f + other
OpAdd ==
    \E f \in 1..Len(heap), other \in Values :
        Construct("+", <<MF(f), other>>, MeanFunction_add(f, other))

\* f * other
OpMul ==
    \E f \in 1..Len(heap), other \in Values :
        Construct("*", <<MF(f), other>>, MeanFunction_mul(f, other))

\* m(X)
Evaluate ==
    \E id \in 1..Len(heap), X \in Inputs :
        LET out == Call(heap, id, X, 0)
        IN /\ last' = Statement("call", id, X, <<>>, out.res, out.log)
           /\ UNCHANGED heap

HasAB(id) == heap[id].kind \in {"Linear", "Identity"}

HasSetter(id) == heap[id].kind = "Identity"

\* m.A
ReadA ==
    \E id \in 1..Len(heap) :
        /\ HasAB(id)
        /\ last' = Statement("A", id, NoMat, <<>>,
                             IF heap[id].kind = "Identity" THEN Identity_A(heap[id])
                             ELSE Ok(heap[id].A[1]), <<>>)
        /\ UNCHANGED heap

\* m.b
ReadB ==
    \E id \in 1..Len(heap) :
        /\ HasAB(id)
        /\ last' = Statement("b", id, NoMat, <<>>,
                             IF heap[id].kind = "Identity" THEN Identity_b(heap[id])
                             ELSE OkVec(heap[id].b[1]), <<>>)
        /\ UNCHANGED heap

\* m.A = v
AssignA ==
    \E id \in 1..Len(heap), v \in AssignedA :
        /\ HasSetter(id)
        /\ heap' = [heap EXCEPT ![id] = SetAttrA(@, v)]
        /\ last' = Statement("A=", id, v, <<>>, OkNone, <<>>)

\* m.b = v
AssignB ==
    \E id \in 1..Len(heap), v \in AssignedB :
        /\ HasSetter(id)
        /\ heap' = [heap EXCEPT ![id] = SetAttrB(@, v)]
        /\ last' = Statement("b=", id, AsRow(v), <<>>, OkNone, <<>>)

Next ==
    \/ NewLinear
    \/ NewIdentity
    \/ NewConstant
    \/ NewZero
    \/ NewAdditive
    \/ NewProduct
    \/ NewSwitched
    \/ OpAdd
    \/ OpMul
    \/ Evaluate
    \/ ReadA
    \/ ReadB
    \/ AssignA
    \/ AssignB

Spec == Init /\ [][Next]_vars

(* ------------------------------ claims ------------------------------- *)

IsCallOf(kinds) ==
    /\ last.op = "call"
    /\ heap[last.id].kind \in kinds

LabelAt(X, i) == X.d[i][X.w]

LabelsInRange(X, K) ==
    /\ X.w >= 1
    /\ \A i \in 1..X.n : LabelAt(X, i) \in 0..(K - 1)

\* row i of X without its label, as a batch of one row
FeatureRow(X, i) == Mat(1, X.w - 1, <<SubSeq(X.d[i], 1, X.w - 1)>>)

\* the feature rows of X labelled g, in the order they have in X
GroupOf(X, g) ==
    LET rows == SelectSeq(X.d, LAMBDA r : r[X.w] = g)
    IN Mat(Len(rows), X.w - 1, [p \in 1..Len(rows) |-> SubSeq(rows[p], 1, X.w - 1)])

\* the calls the object called by the client made itself
DirectCalls == SelectSeq(last.log, LAMBDA e : e.by = last.id)

\* C1: a SwitchedMeanFunction called on X whose labels are in 0..K-1 returns, when
\* it returns, N rows whose row i is what child[label_i] returns for row i's
\* features alone; and it does return when K >= 1 and the children return tensors
\* of one common width for their groups.
C1_SwitchedRowsInOriginalOrder ==
    LET X == last.x
        kids == heap[last.id].kids
        K == Len(kids)
        group(g) == Call(heap, kids[g], GroupOf(X, g - 1), last.id).res
    IN (IsCallOf({"SwitchedMeanFunction"}) /\ LabelsInRange(X, K)) =>
        /\ last.res.ok =>
            /\ last.res.val.n = X.n
            /\ Len(last.res.val.d) = X.n
            /\ \A i \in 1..X.n :
                LET r == Call(heap, kids[LabelAt(X, i) + 1], FeatureRow(X, i), last.id).res
                IN r.ok /\ r.val.n = 1 /\ last.res.val.d[i] = r.val.d[1]
        /\ ( /\ K >= 1
             /\ \A g \in 1..K : group(g).ok
             /\ \A g \in 1..K : group(g).val.w = group(1).val.w ) => last.res.ok

C1_Witness ==
    /\ IsCallOf({"SwitchedMeanFunction"})
    /\ Len(heap[last.id].kids) = 2
    /\ last.x.n = 2
    /\ LabelAt(last.x, 1) = 1
    /\ LabelAt(last.x, 2) = 0
    /\ last.res.ok
    /\ last.res.val.d[1] # last.res.val.d[2]

\* C2: a SwitchedMeanFunction called on X whose labels are in 0..K-1 calls its
\* children in list order, child g with exactly the feature rows labelled g in
\* their original order (no label column, no row of another label), each once;
\* the loop over the children ends early only at a child that raises.
C2_EachChildGetsItsGroupOnce ==
    LET X == last.x
        kids == heap[last.id].kids
        K == Len(kids)
        direct == DirectCalls
        n == Len(direct)
    IN (IsCallOf({"SwitchedMeanFunction"}) /\ LabelsInRange(X, K)) =>
        /\ n <= K
        /\ \A g \in 1..n :
            /\ direct[g].id = kids[g]
            /\ direct[g].x = GroupOf(X, g - 1)
            /\ direct[g].x.w = X.w - 1
        /\ last.res.ok => n = K
        /\ n < K =>
            /\ n >= 1
            /\ ~Call(heap, kids[n], GroupOf(X, n - 1), last.id).res.ok

C2_Witness ==
    /\ IsCallOf({"SwitchedMeanFunction"})
    /\ Len(heap[last.id].kids) = 2
    /\ heap[last.id].kids[1] # heap[last.id].kids[2]
    /\ last.x.n = 2
    /\ LabelAt(last.x, 1) = 1
    /\ LabelAt(last.x, 2) = 0
    /\ Len(DirectCalls) = 2
    /\ DirectCalls[1].x.n = 1
    /\ DirectCalls[2].x.n = 1

\* C3: when both children of an Additive (Product) return tensors of equal width
\* for X, the node returns their elementwise sum (product), and the node with
\* the children in the other order returns the same tensor.
C3_CombinatorsElementwise ==
    LET X == last.x
        self == heap[last.id]
        f == Call(heap, self.kids[1], X, last.id).res
        g == Call(heap, self.kids[2], X, last.id).res
        swapped == Append(heap, [self EXCEPT !.kids = <<self.kids[2], self.kids[1]>>])
        combine(a, b) == IF self.kind = "Additive" THEN a + b ELSE a * b
    IN (IsCallOf({"Additive", "Product"}) /\ f.ok /\ g.ok /\ f.val.w = g.val.w) =>
        /\ last.res.ok
        /\ last.res.val.n = f.val.n
        /\ last.res.val.n = g.val.n
        /\ last.res.val.w = f.val.w
        /\ \A i \in 1..f.val.n : \A j \in 1..f.val.w :
            last.res.val.d[i][j] = combine(f.val.d[i][j], g.val.d[i][j])
        /\ Call(swapped, Len(swapped), X, 0).res = last.res

C3_Witness ==
    /\ IsCallOf({"Additive"})
    /\ heap[last.id].kids[1] # heap[last.id].kids[2]
    /\ last.res.ok
    /\ last.res.val.n = 2
    /\ last.res.val.w = 2
    /\ Call(heap, heap[last.id].kids[1], last.x, 0).res.val
           # Call(heap, heap[last.id].kids[2], last.x, 0).res.val

\* C4: f + g (f * g) with mean functions f and g returns a new Additive (Product)
\* whose children are f, g in that order; the step calls no mean function and
\* leaves every existing object as it was.
C4_OperatorsBuildOrderedNode ==
    [][ (last'.op \in {"+", "*"} /\ last' # last) =>
          /\ (\A k \in 1..2 : isinstance_MeanFunction(last'.args[k])) => last'.res.ok
          /\ last'.res.ok =>
              /\ Len(heap') = Len(heap) + 1
              /\ last'.res.ref = Len(heap')
              /\ heap'[Len(heap')].kind = (IF last'.op = "+" THEN "Additive" ELSE "Product")
              /\ heap'[Len(heap')].kids = <<last'.args[1].ref, last'.args[2].ref>>
              /\ SubSeq(heap', 1, Len(heap)) = heap
              /\ last'.log = <<>> ]_vars

C4_Witness ==
    /\ last.op = "+"
    /\ last.res.ok
    /\ last.args[1].ref # last.args[2].ref
    /\ heap[last.res.ref].kids = <<last.args[1].ref, last.args[2].ref>>

\* C5: an Identity stores no A and no b, whatever was assigned to them (by the
\* constructor of Linear or by the client); it returns every X unchanged; with
\* input_dim = D its A reads as the D x D identity matrix and its b as D zeros.
C5_IdentityIgnoresAssignment ==
    \A id \in 1..Len(heap) :
        heap[id].kind = "Identity" =>
            /\ heap[id].A = None
            /\ heap[id].b = None
            /\ \A X \in Inputs : Call(heap, id, X, 0).res = Ok(X)
            /\ (last.op = "call" /\ last.id = id) => last.res = Ok(last.x)
            /\ heap[id].input_dim # None =>
                LET D == heap[id].input_dim[1]
                    A == Identity_A(heap[id])
                    b == Identity_b(heap[id])
                IN /\ A.ok /\ A.val.n = D /\ A.val.w = D
                   /\ \A i \in 1..D : \A j \in 1..D :
                        A.val.d[i][j] = (IF i = j THEN 1 ELSE 0)
                   /\ b.ok /\ Len(b.vec) = D
                   /\ \A j \in 1..D : b.vec[j] = 0
                   /\ (last.op = "A" /\ last.id = id) => last.res = A
                   /\ (last.op = "b" /\ last.id = id) => last.res = b

C5_Witness ==
    /\ last.op = "A="
    /\ heap[last.id].kind = "Identity"
    /\ heap[last.id].input_dim = Some(2)
    /\ heap[last.id].A = None

\* C6: reading A or b of an Identity raises ValueError exactly when input_dim is
\* None; constructing an Identity and calling any mean function never raise it.
C6_ConfigurationErrorIffNoInputDim ==
    /\ (last.op \in {"A", "b"} /\ heap[last.id].kind = "Identity") =>
        /\ last.res.ok <=> heap[last.id].input_dim # None
        /\ ~last.res.ok => last.res.err = "ValueError"
    /\ last.op = "Identity" => last.res.ok
    /\ last.op = "call" => last.res.err # "ValueError"
    /\ (last.op = "call" /\ heap[last.id].kind = "Identity") => last.res.ok

C6_Witness ==
    /\ last.op = "A"
    /\ heap[last.id].kind = "Identity"
    /\ heap[last.id].input_dim = None
    /\ last.res.err = "ValueError"

\* C7: a Constant with c of length Q returns, for X of N rows, N rows each equal
\* to c; a Zero with output_dim Q returns N rows of Q zeros; both return the same
\* for every other X of N rows; a Zero has no attribute c.
C7_ConstantAndZeroShape ==
    /\ \A id \in 1..Len(heap) : heap[id].kind = "Zero" => heap[id].c = None
    /\ IsCallOf({"Constant", "Zero"}) =>
        LET self == heap[last.id]
            N == last.x.n
            Q == IF self.kind = "Zero" THEN self.output_dim[1] ELSE self.c[1].w
            row == IF self.kind = "Zero" THEN [j \in 1..Q |-> 0] ELSE self.c[1].d[1]
        IN /\ last.res.ok
           /\ last.res.val.n = N
           /\ last.res.val.w = Q
           /\ Len(last.res.val.d) = N
           /\ \A i \in 1..N : last.res.val.d[i] = row
           /\ \A Y \in Inputs : Y.n = N => Call(heap, last.id, Y, 0).res = last.res

C7_Witness ==
    /\ IsCallOf({"Constant"})
    /\ last.x.n = 2
    /\ last.x.w = 1
    /\ last.res.val.d = <<<<1, 3>>, <<1, 3>>>>

CtorOps == {"Additive", "Product", "SwitchedMeanFunction", "+", "*"}

\* C8: Additive, Product, SwitchedMeanFunction, + and * return a node exactly when
\* every argument (every element of the list) is a mean function; otherwise they
\* raise AssertionError and the heap gains no object.
C8_ConstructionAsserts ==
    [][ last'.op \in CtorOps =>
          /\ last'.res.ok <=>
                \A k \in 1..Len(last'.args) : isinstance_MeanFunction(last'.args[k])
          /\ ~last'.res.ok =>
              /\ last'.res.err = "AssertionError"
              /\ last'.res.ref = 0
              /\ heap' = heap
          /\ (last'.res.ok /\ last' # last) =>
              /\ Len(heap') = Len(heap) + 1
              /\ last'.res.ref = Len(heap') ]_vars

C8_Witness ==
    /\ last.op = "*"
    /\ ~last.res.ok
    /\ last.res.err = "AssertionError"
    /\ isinstance_MeanFunction(last.args[1])
    /\ ~isinstance_MeanFunction(last.args[2])

\* the results of the two children of the combinator the client called
ChildRes(k) == Call(heap, heap[last.id].kids[k], last.x, last.id).res

\* C9 as stated: whenever the children's output widths differ the call fails.
C9_Original ==
    (IsCallOf({"Additive", "Product"}) /\ ChildRes(1).ok /\ ChildRes(2).ok
        /\ ChildRes(1).val.w # ChildRes(2).val.w) => ~last.res.ok

\* C9 amended: when both children return, an Additive or Product fails (with the
\* tensor engine's shape error) exactly when the widths differ and neither is 1;
\* a child of width 1 is broadcast across the other child's columns.
C9_ShapeMismatchUnlessBroadcast ==
    LET f == ChildRes(1).val
        g == ChildRes(2).val
        self == heap[last.id]
        combine(a, b) == IF self.kind = "Additive" THEN a + b ELSE a * b
        at(m, i, j) == IF m.w = 1 THEN m.d[i][1] ELSE m.d[i][j]
    IN (IsCallOf({"Additive", "Product"}) /\ ChildRes(1).ok /\ ChildRes(2).ok) =>
        /\ last.res.ok <=> (f.w = g.w \/ f.w = 1 \/ g.w = 1)
        /\ ~last.res.ok => last.res.err = "InvalidArgument"
        /\ last.res.ok =>
            /\ last.res.val.n = last.x.n
            /\ last.res.val.w = (IF f.w = 1 THEN g.w ELSE f.w)
            /\ \A i \in 1..last.res.val.n : \A j \in 1..last.res.val.w :
                last.res.val.d[i][j] = combine(at(f, i, j), at(g, i, j))

C9_Witness ==
    /\ IsCallOf({"Additive", "Product"})
    /\ ChildRes(1).ok
    /\ ChildRes(2).ok
    /\ ChildRes(1).val.w = 2
    /\ ChildRes(2).val.w = 3
    /\ ~last.res.ok

\* the child slots <<parent, k>> that hold the object id
SlotsHolding(id) ==
    {s \in UNION {{<<p, k>> : k \in 1..Len(heap[p].kids)} : p \in 1..Len(heap)} :
        heap[s[1]].kids[s[2]] = id}

ChildrenOlder(h) ==
    \A i \in 1..Len(h) : \A k \in 1..Len(h[i].kids) : h[i].kids[k] \in 1..(i - 1)

\* C10 as stated: no cycle, and every object sits in at most one child slot.
C10_Original ==
    /\ ChildrenOlder(heap)
    /\ \A id \in 1..Len(heap) : Cardinality(SlotsHolding(id)) <= 1

\* C10 amended: every child existed before its parent was constructed (so there
\* is no cycle) and no step reassigns the children of an existing object; one
\* object may sit in several child slots.
C10_AcyclicAndFrozen ==
    /\ ChildrenOlder(heap)
    /\ [][ /\ ChildrenOlder(heap')
           /\ Len(heap') >= Len(heap)
           /\ \A i \in 1..Len(heap) : heap'[i].kids = heap[i].kids ]_vars

C10_Witness ==
    \E id \in 1..Len(heap) :
        /\ Cardinality(SlotsHolding(id)) >= 2
        /\ \E p \in 1..Len(heap) : heap[p].kind = "Additive" /\ heap[p].kids = <<id, id>>

====
